---- MODULE Spec2Model ----
(***************************************************************************)
(* Study Buddy front-end script, Version 2.0: the client-side search       *)
(* engine (SearchHandler.searchContent) and its interaction controller     *)
(* (SearchHandler.setupSearch, handleSearch, displayResults, clearResults).*)
(* Strings are TLA+ strings, i.e. sequences of characters.                 *)
(***************************************************************************)
EXTENDS Integers, Sequences, FiniteSets, TLC

(***************************************************************************)
(* Configuration                                                           *)
(***************************************************************************)
SEARCH_RESULT_LIMIT == 10

(***************************************************************************)
(* Bounds of the model                                                     *)
(***************************************************************************)
\* number of pieces concatenated into a query handed to searchContent
MaxPieces == 3

\* number of App.init calls (a destroyed application can be initialised again)
MaxInits == 2

\* the count of searchContent calls is kept up to this number
CallsCap == 2

\* the count of input events of one burst is kept up to this number
BurstCap == 3

\* initialisations of the application followed while the history of input
\* bursts and arrow keys is recorded
TraceInits == 1

(***************************************************************************)
(* String primitives of the host language                                  *)
(***************************************************************************)
CharAt(s, i) == SubSeq(s, i, i)

UpperCase == "ABCDEFGHIJKLMNOPQRSTUVWXYZ"
LowerCase == "abcdefghijklmnopqrstuvwxyz"

\* String.prototype.toLowerCase on one character
UpperChars == {CharAt(UpperCase, i) : i \in 1..Len(UpperCase)}

toLowerMap ==
  [c \in UpperChars |->
     CharAt(LowerCase, CHOOSE i \in 1..Len(UpperCase) : CharAt(UpperCase, i) = c)]

LowerChar(c) == IF c \in UpperChars THEN toLowerMap[c] ELSE c

\* String.prototype.toLowerCase, character by character
RECURSIVE lowerCased(_)
lowerCased(s) ==
  IF Len(s) = 0 THEN ""
  ELSE IF Len(s) = 1 THEN LowerChar(s)
  ELSE LET half == Len(s) \div 2 IN
       lowerCased(SubSeq(s, 1, half)) \o lowerCased(SubSeq(s, half + 1, Len(s)))

\* the characters the regular expression class \s and trim() treat as space
IsWhitespace(c) == c \in {" ", "\t", "\n"}

\* String.prototype.includes
includes(s, t) ==
  \E i \in 0..(Len(s) - Len(t)) : SubSeq(s, i + 1, i + Len(t)) = t

\* String.prototype.startsWith
startsWith(s, t) ==
  Len(t) <= Len(s) /\ SubSeq(s, 1, Len(t)) = t

RECURSIVE trimStart(_)
trimStart(s) ==
  IF Len(s) > 0 /\ IsWhitespace(CharAt(s, 1))
  THEN trimStart(SubSeq(s, 2, Len(s)))
  ELSE s

RECURSIVE trimEnd(_)
trimEnd(s) ==
  IF Len(s) > 0 /\ IsWhitespace(CharAt(s, Len(s)))
  THEN trimEnd(SubSeq(s, 1, Len(s) - 1))
  ELSE s

\* String.prototype.trim
trim(s) == trimEnd(trimStart(s))

\* String.prototype.split(/\s+/): the pieces between maximal runs of
\* whitespace, the empty leading and trailing pieces included
RECURSIVE splitFrom(_, _, _, _)
splitFrom(s, i, cur, acc) ==
  IF i > Len(s) THEN Append(acc, cur)
  ELSE IF IsWhitespace(CharAt(s, i))
       THEN IF i > 1 /\ IsWhitespace(CharAt(s, i - 1))
            THEN splitFrom(s, i + 1, cur, acc)
            ELSE splitFrom(s, i + 1, "", Append(acc, cur))
       ELSE splitFrom(s, i + 1, cur \o CharAt(s, i), acc)

split(s) == splitFrom(s, 1, "", <<>>)

\* Array.prototype.join(' ')
RECURSIVE join(_)
join(ks) ==
  IF Len(ks) = 0 THEN ""
  ELSE IF Len(ks) = 1 THEN ks[1]
  ELSE ks[1] \o " " \o join(Tail(ks))

(***************************************************************************)
(* Record Store                                                            *)
(***************************************************************************)
loadSearchData ==
  <<
     [title |-> "Sing & Rhyme", description |-> "Turn lessons into songs to improve retention and make learning fun",
      category |-> "Elementary", page |-> "elementary.html",
      keywords |-> <<"music", "memory", "songs", "retention">>],
     [title |-> "Colorful Flashcards", description |-> "Use colors and images for vocabulary and facts",
      category |-> "Elementary", page |-> "elementary.html",
      keywords |-> <<"visual", "memory", "colors", "vocabulary">>],
     [title |-> "Short Sessions", description |-> "Study for 15-25 minutes then take breaks",
      category |-> "Elementary", page |-> "elementary.html",
      keywords |-> <<"focus", "breaks", "time management">>],
     [title |-> "Read Aloud", description |-> "Reading aloud helps comprehension and memory",
      category |-> "Elementary", page |-> "elementary.html",
      keywords |-> <<"reading", "comprehension">>],
     [title |-> "Cornell Notes", description |-> "Organize lectures into cues, notes, and summaries",
      category |-> "High School", page |-> "highschool.html",
      keywords |-> <<"notes", "organization", "lectures", "review">>],
     [title |-> "Mnemonics", description |-> "Use memory devices for sequences like PEMDAS",
      category |-> "High School", page |-> "highschool.html",
      keywords |-> <<"memory", "tricks", "sequences">>],
     [title |-> "Mind Maps", description |-> "Connect ideas visually to improve understanding",
      category |-> "High School", page |-> "highschool.html",
      keywords |-> <<"visual", "connections", "diagrams">>],
     [title |-> "Pomodoro Technique", description |-> "Study for 25 minutes then 5-minute break",
      category |-> "High School", page |-> "highschool.html",
      keywords |-> <<"focus", "timer", "productivity", "breaks">>],
     [title |-> "Flashcard Apps", description |-> "Use Anki or Quizlet for spaced repetition",
      category |-> "High School", page |-> "highschool.html",
      keywords |-> <<"apps", "technology", "spaced repetition", "anki", "quizlet">>],
     [title |-> "Study Groups", description |-> "Explain concepts to peers to deepen comprehension",
      category |-> "High School", page |-> "highschool.html",
      keywords |-> <<"collaboration", "peers", "teaching">>],
     [title |-> "Past Papers", description |-> "Practice with old exam formats under timed conditions",
      category |-> "High School", page |-> "highschool.html",
      keywords |-> <<"practice", "exams", "testing">>],
     [title |-> "Career Mapping", description |-> "Identify pathways early using interest inventories",
      category |-> "Senior High", page |-> "seniorhigh.html",
      keywords |-> <<"career", "planning", "future">>],
     [title |-> "Time Blocking", description |-> "Plan fixed hours for subjects and rest",
      category |-> "Senior High", page |-> "seniorhigh.html",
      keywords |-> <<"schedule", "time management", "planning">>],
     [title |-> "Mock Interviews", description |-> "Practice responses with peers for confidence",
      category |-> "Senior High", page |-> "seniorhigh.html",
      keywords |-> <<"interview", "practice", "career">>],
     [title |-> "Digital Literacy", description |-> "Learn Google Suite, Excel, and Canva basics",
      category |-> "Senior High", page |-> "seniorhigh.html",
      keywords |-> <<"technology", "digital", "tools", "google", "excel", "canva">>],
     [title |-> "Portfolio Building", description |-> "Compile best works, certificates, and achievements",
      category |-> "Senior High", page |-> "seniorhigh.html",
      keywords |-> <<"portfolio", "achievements", "career">>],
     [title |-> "Research Databases", description |-> "Master JSTOR, Google Scholar, and library access",
      category |-> "University", page |-> "university.html",
      keywords |-> <<"research", "academic", "databases", "jstor", "scholar">>],
     [title |-> "Citation Managers", description |-> "Use Zotero, Mendeley, or EndNote for references",
      category |-> "University", page |-> "university.html",
      keywords |-> <<"citations", "references", "zotero", "mendeley">>],
     [title |-> "Critical Reading", description |-> "Evaluate sources, analyze arguments, identify biases",
      category |-> "University", page |-> "university.html",
      keywords |-> <<"reading", "analysis", "critical thinking">>],
     [title |-> "Thesis Planning", description |-> "Outline research chapters early with timeline",
      category |-> "University", page |-> "university.html",
      keywords |-> <<"thesis", "research", "planning", "writing">>],
     [title |-> "Academic Balance", description |-> "Combine mental breaks with focused study sessions",
      category |-> "University", page |-> "university.html",
      keywords |-> <<"balance", "wellness", "breaks", "pomodoro">>]
  >>

\* the strings of the catalog that searchContent converts to lower case
catalogStrings ==
  UNION {{loadSearchData[k].title, loadSearchData[k].description,
          join(loadSearchData[k].keywords), loadSearchData[k].category} :
         k \in 1..Len(loadSearchData)}

\* lowerCased on the strings of the catalog, computed once
catalogLowerCase == [s \in catalogStrings |-> lowerCased(s)]

\* String.prototype.toLowerCase; the value is lowerCased(s), read from the
\* table where the table has it
toLowerCase(s) ==
  IF s \in catalogStrings THEN catalogLowerCase[s] ELSE lowerCased(s)

(***************************************************************************)
(* Scorer and Ranker: SearchHandler.searchContent                          *)
(***************************************************************************)
\* variant: terms of any non-zero length are kept
searchTermsKeepShort(query) ==
  SelectSeq(split(toLowerCase(query)), LAMBDA term : Len(term) > 0)

\* query.toLowerCase().split(/\s+/).filter(term => term.length > 1)
searchTerms(query) ==
  SelectSeq(split(toLowerCase(query)), LAMBDA term : Len(term) > 1)

\* variant: three independent ifs instead of the else-if chain
titleScoreNoElse(titleLower, term) ==
  (IF titleLower = term THEN 100 ELSE 0)
  + (IF startsWith(titleLower, term) THEN 75 ELSE 0)
  + (IF includes(titleLower, term) THEN 50 ELSE 0)

\* variant: no prefix tier
titleScoreNoPrefix(titleLower, term) ==
  IF titleLower = term THEN 100
  ELSE IF includes(titleLower, term) THEN 50
  ELSE 0

\* the if / else-if / else-if chain on the title
titleScore(titleLower, term) ==
  IF titleLower = term THEN 100
  ELSE IF startsWith(titleLower, term) THEN 75
  ELSE IF includes(titleLower, term) THEN 50
  ELSE 0

\* the body of searchTerms.forEach for one term
termScore(titleLower, descLower, keywordsLower, categoryLower, term) ==
  titleScore(titleLower, term)
  + (IF includes(descLower, term) THEN 30 ELSE 0)
  + (IF includes(keywordsLower, term) THEN 25 ELSE 0)
  + (IF includes(categoryLower, term) THEN 15 ELSE 0)

\* searchTerms.forEach(...) accumulating into score, starting from `score`
RECURSIVE forEachTerm(_, _, _, _, _, _)
forEachTerm(titleLower, descLower, keywordsLower, categoryLower, terms, score) ==
  IF Len(terms) = 0 THEN score
  ELSE forEachTerm(titleLower, descLower, keywordsLower, categoryLower,
                   Tail(terms),
                   score + termScore(titleLower, descLower, keywordsLower,
                                     categoryLower, terms[1]))

itemScore(item, terms) ==
  forEachTerm(toLowerCase(item.title), toLowerCase(item.description),
              toLowerCase(join(item.keywords)), toLowerCase(item.category),
              terms, 0)

\* variant: the callback writes the score into the catalog object and
\* returns that object
mapItemInPlace(item, terms) ==
  LET scored == [title |-> item.title, description |-> item.description,
                 category |-> item.category, page |-> item.page,
                 keywords |-> item.keywords, score |-> itemScore(item, terms)]
  IN [ret |-> scored, item |-> scored]

\* the callback of .map: `ret` is the object it returns ({ ...item, score }),
\* `item` is the catalog object it was handed, as the callback leaves it
mapItem(item, terms) ==
  [ret  |-> [title |-> item.title, description |-> item.description,
             category |-> item.category, page |-> item.page,
             keywords |-> item.keywords, score |-> itemScore(item, terms)],
   item |-> item]

\* variant: an element is placed before the elements that compare equal
RECURSIVE insertByScoreUnstable(_, _)
insertByScoreUnstable(sorted, x) ==
  IF Len(sorted) = 0 THEN <<x>>
  ELSE IF x.score - sorted[1].score >= 0 THEN <<x>> \o sorted
  ELSE <<sorted[1]>> \o insertByScoreUnstable(Tail(sorted), x)

\* Array.prototype.sort((a, b) => b.score - a.score): a stable sort, so an
\* element is placed behind every element already placed that compares equal
RECURSIVE insertByScore(_, _)
insertByScore(sorted, x) ==
  IF Len(sorted) = 0 THEN <<x>>
  ELSE IF x.score - sorted[1].score > 0 THEN <<x>> \o sorted
  ELSE <<sorted[1]>> \o insertByScore(Tail(sorted), x)

RECURSIVE sortFrom(_, _)
sortFrom(xs, sorted) ==
  IF Len(xs) = 0 THEN sorted
  ELSE sortFrom(Tail(xs), insertByScore(sorted, xs[1]))

sort(xs) == sortFrom(xs, <<>>)

\* variant: no truncation
sliceAll(xs, n) == xs

\* Array.prototype.slice(0, n)
slice(xs, n) == SubSeq(xs, 1, IF Len(xs) < n THEN Len(xs) ELSE n)

\* .map(item => ...) over the catalog
map(data, terms) == [i \in 1..Len(data) |-> mapItem(data[i], terms)]

\* variant: records of score 0 are not filtered out
rankNoFilter(mapped) ==
  [results |-> slice(sort([i \in 1..Len(mapped) |-> mapped[i].ret]),
                     SEARCH_RESULT_LIMIT),
   searchData |-> [i \in 1..Len(mapped) |-> mapped[i].item]]

\* variant: the catalog array itself is sorted by score
rankInPlace(mapped) ==
  LET keyed == sort([i \in 1..Len(mapped) |->
                       [score |-> mapped[i].ret.score, item |-> mapped[i].item]])
  IN [results |-> slice(sort(SelectSeq([i \in 1..Len(mapped) |-> mapped[i].ret],
                                        LAMBDA item : item.score > 0)),
                         SEARCH_RESULT_LIMIT),
      searchData |-> [i \in 1..Len(keyed) |-> keyed[i].item]]

\* .filter(item => item.score > 0).sort(...).slice(0, Config.SEARCH_RESULT_LIMIT)
\* on what .map returned
rank(mapped) ==
  [results |-> slice(sort(SelectSeq([i \in 1..Len(mapped) |-> mapped[i].ret],
                                    LAMBDA item : item.score > 0)),
                     SEARCH_RESULT_LIMIT),
   searchData |-> [i \in 1..Len(mapped) |-> mapped[i].item]]

\* searchContent(query) on the catalog `data`: `results` is the value it
\* returns, `searchData` the catalog as the call leaves it
searchContent(data, query) ==
  LET terms == searchTerms(query) IN
  IF Len(terms) = 0 THEN [results |-> <<>>, searchData |-> data]
  ELSE rank(map(data, terms))

(***************************************************************************)
(* Inputs                                                                  *)
(***************************************************************************)
Pieces == {"pomodoro", "in", "Mnemonics", "high", "p", " ", "\t", "xyz123notfound"}

RECURSIVE concat(_)
concat(ps) == IF Len(ps) = 0 THEN "" ELSE ps[1] \o concat(Tail(ps))

\* the queries handed to searchContent
RankQueries ==
  {concat(ps) : ps \in UNION {[1..n -> Pieces] : n \in 0..MaxPieces}}

\* the values the user gives the search input
InputValues == {"", " ", "p", "pomodoro", "breaks", "xyz123notfound"}

StartPage == "index.html"

\* what searchContent returns and leaves behind on the catalog as loaded,
\* tabulated for the queries the input handlers can pass
searchOnLoaded ==
  [q \in {trim(v) : v \in InputValues} |-> searchContent(loadSearchData, q)]

\* this.searchContent(query) with this.searchData = data; the value is
\* searchContent(data, query), read from the table where the table has it
searchContentOn(data, query) ==
  IF data = loadSearchData /\ query \in DOMAIN searchOnLoaded
  THEN searchOnLoaded[query]
  ELSE searchContent(data, query)

(***************************************************************************)
(* State                                                                   *)
(***************************************************************************)
VARIABLES
  initialized,      \* App.initialized
  inits,            \* number of App.init calls that ran setupSearch
  listening,        \* the listeners of setupSearch are attached (signal not aborted)
  searchData,       \* SearchHandler.searchData
  resultsContainer, \* SearchHandler.elements.resultsContainer: <<>> is null
  wrapperChildren,  \* the panels appended to the .search-wrapper element
  inputValue,       \* value of the #searchBar input
  clearDisplay,     \* style.display of the #search-clear button
  activeElement,    \* document.activeElement: "body", "input", "item"
  itemIndex,        \* index of the focused .search-result-item, -1 if none
  pendingTimers,    \* setTimeout callbacks of the debounce closures not yet run
  location,         \* window.location.href
  lastAnnounce,     \* count in the last "n results found" status, -1 if none
  searchCalls,      \* history: calls of searchContent since load, up to CallsCap
  recording,        \* whether this behaviour records burst and lastArrow
  burst,            \* history: input events handled since the debounced search was
                    \* last idle (no timeout pending), up to BurstCap
  lastArrow,        \* history: the arrow key of the last event, if it was an arrow
                    \* key press, and a bit that every arrow key press flips
  callQuery,        \* argument of a direct call of searchContent
  callReturned,     \* whether that call has returned
  callResults,      \* what it returned
  store,            \* localStorage item 'studyBuddyPrefs': <<>> is absent
  storageEnabled,   \* whether access to localStorage is allowed
  systemDark,       \* matchMedia('(prefers-color-scheme: dark)').matches
  theme,            \* AppState.theme
  preferences,      \* AppState.preferences
  dataTheme,        \* the data-theme attribute of the document element, "" if none
  themeAnnounce,    \* theme named in the last "Switched to ... mode" status
  uncaught,         \* an exception has left loadPreferences or savePreferences
  systemListener,   \* a 'change' listener is attached to the media query
  toggleListeners,  \* number of click listeners attached to #dark-toggle
  menuOpen,         \* AppState.menuOpen
  menuShow,         \* the #menu element has the class 'show'
  ariaExpanded,     \* aria-expanded of the #menu-toggle element
  bodyOverflow,     \* document.body.style.overflow
  navListening,     \* the listeners of Navigation are attached
  lastWrite,        \* history: outcome of savePreferences in the last event
  userToggled       \* history: toggleTheme has run

domVars == <<resultsContainer, wrapperChildren, activeElement, itemIndex,
             searchData, lastAnnounce, searchCalls>>
callVars == <<callQuery, callReturned, callResults>>
appVars == <<theme, preferences, store, dataTheme, themeAnnounce, lastWrite,
             uncaught>>
menuVars == <<menuOpen, menuShow, ariaExpanded, bodyOverflow>>
themeVars == <<appVars, menuVars, storageEnabled, systemDark, systemListener,
               toggleListeners, navListening, userToggled>>
vars == <<initialized, inits, listening, searchData, resultsContainer,
          wrapperChildren, inputValue, clearDisplay, activeElement, itemIndex,
          pendingTimers, location, lastAnnounce, searchCalls, recording, burst,
          lastArrow, callQuery, callReturned, callResults, themeVars>>

NoArrow == [key |-> "", flip |-> FALSE]

\* an event other than an arrow key press is handled
OtherEvent == lastArrow' = NoArrow /\ UNCHANGED recording

(***************************************************************************)
(* Handlers, as functions of the part of the state they read and write     *)
(***************************************************************************)
Dom ==
  [resultsContainer |-> resultsContainer, wrapperChildren |-> wrapperChildren,
   activeElement |-> activeElement, itemIndex |-> itemIndex,
   searchData |-> searchData, lastAnnounce |-> lastAnnounce,
   searchCalls |-> searchCalls]

SetDom(d) ==
  /\ resultsContainer' = d.resultsContainer
  /\ wrapperChildren' = d.wrapperChildren
  /\ activeElement' = d.activeElement
  /\ itemIndex' = d.itemIndex
  /\ searchData' = d.searchData
  /\ lastAnnounce' = d.lastAnnounce
  /\ searchCalls' = d.searchCalls

\* number of .search-result-item elements in the first k panels
RECURSIVE itemsIn(_, _)
itemsIn(panels, k) ==
  IF k = 0 THEN 0 ELSE itemsIn(panels, k - 1) + Len(panels[k].results)

\* Helpers.$$('.search-result-item').length
itemCount(d) == itemsIn(d.wrapperChildren, Len(d.wrapperChildren))

\* Element.remove() on panel number k of the wrapper; focus falls back to
\* the body when the focused item goes with it
removePanel(d, k) ==
  LET before == itemsIn(d.wrapperChildren, k - 1)
      n      == Len(d.wrapperChildren[k].results)
      inside == d.activeElement = "item" /\ d.itemIndex >= before
                  /\ d.itemIndex < before + n
  IN [d EXCEPT
        !.wrapperChildren = SubSeq(d.wrapperChildren, 1, k - 1)
                              \o SubSeq(d.wrapperChildren, k + 1, Len(d.wrapperChildren)),
        !.activeElement = IF inside THEN "body" ELSE d.activeElement,
        !.itemIndex = IF inside THEN -1
                      ELSE IF d.itemIndex >= before + n THEN d.itemIndex - n
                      ELSE d.itemIndex]

\* clearResults()
clearResults(d) ==
  LET attached == {k \in 1..Len(d.wrapperChildren) :
                     d.resultsContainer = <<d.wrapperChildren[k]>>}
      removed  == IF attached = {} THEN d
                  ELSE removePanel(d, CHOOSE k \in attached : \A j \in attached : k <= j)
  IN [removed EXCEPT !.resultsContainer = <<>>]

\* variant: nothing is rendered for an empty result list
displayResultsSkipEmpty(d, results, query) ==
  LET cleared   == clearResults(d)
      container == [query |-> query, results |-> results]
  IN IF Len(results) = 0 THEN cleared
     ELSE [cleared EXCEPT
             !.wrapperChildren = Append(cleared.wrapperChildren, container),
             !.resultsContainer = <<container>>,
             !.lastAnnounce = Len(results)]

\* variant: the panel is rendered without clearing the previous one
displayResultsNoClear(d, results, query) ==
  LET container == [query |-> query, results |-> results]
  IN [d EXCEPT
        !.wrapperChildren = Append(d.wrapperChildren, container),
        !.resultsContainer = <<container>>,
        !.lastAnnounce = Len(results)]

\* displayResults(results, query)
displayResults(d, results, query) ==
  LET cleared   == clearResults(d)
      container == [query |-> query, results |-> results]
  IN [cleared EXCEPT
        !.wrapperChildren = Append(cleared.wrapperChildren, container),
        !.resultsContainer = <<container>>,
        !.lastAnnounce = Len(results)]

counted(n) == IF n < CallsCap THEN n + 1 ELSE n

\* variant: an empty query leaves the panel as it is
handleSearchKeepsPanel(d, query) ==
  IF query = "" THEN d
  ELSE LET out == searchContentOn(d.searchData, query) IN
       displayResults([d EXCEPT !.searchData = out.searchData,
                                 !.searchCalls = counted(d.searchCalls)],
                       out.results, query)

\* handleSearch(query)
handleSearch(d, query) ==
  IF query = "" THEN clearResults(d)
  ELSE LET out == searchContentOn(d.searchData, query) IN
       displayResults([d EXCEPT !.searchData = out.searchData,
                                 !.searchCalls = counted(d.searchCalls)],
                       out.results, query)

\* handleArrowNavigation(e): the index of the item that receives focus, for
\* `n` items of which number `currentIndex` (-1: none) is the active element
nextIndex(key, currentIndex, n) ==
  IF key = "ArrowDown"
  THEN IF currentIndex < n - 1 THEN currentIndex + 1 ELSE 0
  ELSE IF currentIndex > 0 THEN currentIndex - 1 ELSE n - 1

\* variant: without the early return for an empty list of items
handleArrowNavigationNoGuard(d, key) ==
  LET n == itemCount(d)
      currentIndex == IF d.activeElement = "item" THEN d.itemIndex ELSE -1
  IN [d EXCEPT !.activeElement = "item",
               !.itemIndex = nextIndex(key, currentIndex, n)]

handleArrowNavigation(d, key) ==
  LET n == itemCount(d)
      currentIndex == IF d.activeElement = "item" THEN d.itemIndex ELSE -1
  IN IF n = 0 THEN d
     ELSE [d EXCEPT !.activeElement = "item",
                    !.itemIndex = nextIndex(key, currentIndex, n)]

\* variant: the scheduled timeout is not cleared before a new one is set
debouncedNoClear(timers, closure, args) ==
  timers \cup {[closure |-> closure, args |-> args]}

\* the function Helpers.debounce returns, called with `args`: clearTimeout of
\* the timeout this closure has pending, then setTimeout of a new one
debounced(timers, closure, args) ==
  {t \in timers : t.closure # closure} \cup {[closure |-> closure, args |-> args]}

(***************************************************************************)
(* AppState: the theme and the stored preferences                          *)
(***************************************************************************)
\* the texts the store is seen to hold under Config.STORAGE_KEY at startup:
\* nothing, the empty text, an unparsable text, JSON null, an array, an
\* object without a theme, and objects with a theme
ThemeKey == "{\"theme\":\""
ObjectEnd == "\"}"
StoredThemes == {"light", "dark", "blue", ""}
StoreContents ==
  {<<>>, <<"">>, <<"{oops">>, <<"null">>, <<"[]">>, <<"{}">>}
    \cup {<<ThemeKey \o t \o ObjectEnd>> : t \in StoredThemes}

\* String.prototype.endsWith
endsWith(s, t) ==
  Len(t) <= Len(s) /\ SubSeq(s, Len(s) - Len(t) + 1, Len(s)) = t

\* values of AppState.preferences: a property theme is absent (<<>>) or <<t>>
EmptyObject == [kind |-> "object", theme |-> <<>>]
EmptyArray == [kind |-> "array", theme |-> <<>>]
Null == [kind |-> "null", theme |-> <<>>]

\* JSON.parse on the texts above: the value, or threw for a SyntaxError
JSONparse(text) ==
  IF text = "null" THEN [threw |-> FALSE, value |-> Null]
  ELSE IF text = "[]" THEN [threw |-> FALSE, value |-> EmptyArray]
  ELSE IF text = "{}" THEN [threw |-> FALSE, value |-> EmptyObject]
  ELSE IF /\ startsWith(text, ThemeKey)
          /\ endsWith(text, ObjectEnd)
          /\ Len(text) >= Len(ThemeKey) + Len(ObjectEnd)
       THEN [threw |-> FALSE,
             value |-> [kind |-> "object",
                        theme |-> <<SubSeq(text, Len(ThemeKey) + 1,
                                           Len(text) - Len(ObjectEnd))>>]]
  ELSE [threw |-> TRUE, value |-> Null]

\* JSON.stringify of a preferences value: an array is written by its
\* elements only, a property set on it is left out
JSONstringify(v) ==
  IF v.kind = "array" THEN "[]"
  ELSE IF v.theme = <<>> THEN "{}"
  ELSE ThemeKey \o v.theme[1] \o ObjectEnd

\* truthiness of preferences.theme
Truthy(prop) == prop # <<>> /\ prop[1] # ""

\* the AppState fields, the store and the document's theme as one record
App ==
  [theme |-> theme, preferences |-> preferences, store |-> store,
   dataTheme |-> dataTheme, themeAnnounce |-> themeAnnounce,
   lastWrite |-> lastWrite, uncaught |-> uncaught]

SetApp(a) ==
  /\ theme' = a.theme
  /\ preferences' = a.preferences
  /\ store' = a.store
  /\ dataTheme' = a.dataTheme
  /\ themeAnnounce' = a.themeAnnounce
  /\ lastWrite' = a.lastWrite
  /\ uncaught' = a.uncaught

\* variant: getSystemTheme() ignoring the media query
getSystemThemeLight(dark) == "light"

\* AppState.getSystemTheme()
getSystemTheme(dark) == IF dark THEN "dark" ELSE "light"

\* variant: loadPreferences() without its try/catch
loadPreferencesNoCatch(a, enabled, dark) ==
  IF ~enabled THEN [a EXCEPT !.uncaught = TRUE]
  ELSE IF a.store = <<>> \/ a.store[1] = ""
  THEN [a EXCEPT !.preferences = EmptyObject, !.theme = getSystemTheme(dark)]
  ELSE LET parsed == JSONparse(a.store[1]) IN
       IF parsed.threw THEN [a EXCEPT !.uncaught = TRUE]
       ELSE IF parsed.value = Null
       THEN [a EXCEPT !.preferences = Null, !.uncaught = TRUE]
       ELSE [a EXCEPT !.preferences = parsed.value,
                      !.theme = IF Truthy(parsed.value.theme)
                                THEN parsed.value.theme[1]
                                ELSE getSystemTheme(dark)]

\* AppState.loadPreferences(): a throwing read, a throwing parse and the
\* TypeError on null.theme all end in the catch, which resets preferences and
\* leaves this.theme as it was
loadPreferences(a, enabled, dark) ==
  IF ~enabled THEN [a EXCEPT !.preferences = EmptyObject]
  ELSE IF a.store = <<>> \/ a.store[1] = ""
  THEN [a EXCEPT !.preferences = EmptyObject, !.theme = getSystemTheme(dark)]
  ELSE LET parsed == JSONparse(a.store[1]) IN
       IF parsed.threw \/ parsed.value = Null
       THEN [a EXCEPT !.preferences = EmptyObject]
       ELSE [a EXCEPT !.preferences = parsed.value,
                      !.theme = IF Truthy(parsed.value.theme)
                                THEN parsed.value.theme[1]
                                ELSE getSystemTheme(dark)]

\* AppState.savePreferences(): writeOk is whether localStorage.setItem returns
savePreferences(a, writeOk) ==
  LET set == [a EXCEPT !.preferences.theme = <<a.theme>>] IN
  IF writeOk
  THEN [set EXCEPT !.store = <<JSONstringify(set.preferences)>>,
                   !.lastWrite = "ok"]
  ELSE [set EXCEPT !.lastWrite = "threw"]

\* the expression of toggleTheme() for the new theme
toggledTheme(t) == IF t = "light" THEN "dark" ELSE "light"

\* AppState.applyTheme()
applyTheme(a) == [a EXCEPT !.dataTheme = a.theme]

\* AppState.toggleTheme()
toggleTheme(a, writeOk) ==
  LET flipped == [a EXCEPT !.theme = toggledTheme(a.theme)]
      saved == savePreferences(applyTheme(flipped), writeOk)
  IN  [saved EXCEPT !.themeAnnounce = saved.theme]

\* the click listeners of #dark-toggle run one after the other, each calling
\* toggleTheme(); oks[i] is whether the i-th write returns
RECURSIVE toggleClicks(_, _, _)
toggleClicks(a, oks, i) ==
  IF i > Len(oks) THEN a
  ELSE toggleClicks(toggleTheme(a, oks[i]), oks, i + 1)

(***************************************************************************)
(* Navigation: the mobile menu                                             *)
(***************************************************************************)
Menu ==
  [menuOpen |-> menuOpen, menuShow |-> menuShow,
   ariaExpanded |-> ariaExpanded, bodyOverflow |-> bodyOverflow]

SetMenu(m) ==
  /\ menuOpen' = m.menuOpen
  /\ menuShow' = m.menuShow
  /\ ariaExpanded' = m.ariaExpanded
  /\ bodyOverflow' = m.bodyOverflow

\* Navigation.toggleMenu()
toggleMenu(m) ==
  LET open == ~m.menuOpen IN
  [menuOpen |-> open, menuShow |-> open,
   ariaExpanded |-> IF open THEN "true" ELSE "false",
   bodyOverflow |-> IF open THEN "hidden" ELSE ""]

\* variant: closeMenu() leaving the scroll lock on the body
closeMenuKeepsLock(m) ==
  IF ~m.menuOpen THEN m
  ELSE [m EXCEPT !.menuOpen = FALSE, !.menuShow = FALSE,
                 !.ariaExpanded = "false"]

\* Navigation.closeMenu()
closeMenu(m) ==
  IF ~m.menuOpen THEN m
  ELSE [menuOpen |-> FALSE, menuShow |-> FALSE, ariaExpanded |-> "false",
        bodyOverflow |-> ""]

(***************************************************************************)
(* Initial state: the objects as constructed, before App.init              *)
(***************************************************************************)
Constructed ==
  /\ initialized = FALSE
  /\ inits = 0
  /\ listening = FALSE
  /\ searchData = <<>>
  /\ resultsContainer = <<>>
  /\ wrapperChildren = <<>>
  /\ inputValue = ""
  /\ clearDisplay = ""
  /\ activeElement = "body"
  /\ itemIndex = -1
  /\ pendingTimers = {}
  /\ location = StartPage
  /\ lastAnnounce = -1
  /\ searchCalls = 0
  /\ burst = 0
  /\ lastArrow = NoArrow
  /\ callQuery = ""
  /\ callReturned = FALSE
  /\ callResults = <<>>

\* AppState and Navigation as constructed, the document as served
PageLoaded ==
  /\ theme = "light"
  /\ preferences = EmptyObject
  /\ dataTheme = ""
  /\ themeAnnounce = ""
  /\ lastWrite = "none"
  /\ uncaught = FALSE
  /\ systemListener = FALSE
  /\ toggleListeners = 0
  /\ userToggled = FALSE
  /\ menuOpen = FALSE
  /\ menuShow = FALSE
  /\ ariaExpanded = "false"
  /\ bodyOverflow = ""
  /\ navListening = FALSE

\* a browser with an empty, writable store and a light system color scheme
PlainBrowser ==
  /\ store = <<>>
  /\ storageEnabled = TRUE
  /\ systemDark = FALSE

Init == recording = FALSE /\ Constructed /\ PageLoaded /\ PlainBrowser

\* the same initial state, with the history recorded
InitTrace == recording = TRUE /\ Constructed /\ PageLoaded /\ PlainBrowser

\* any store content, storage allowed or not, either system color scheme
InitTheme ==
  /\ recording = FALSE
  /\ Constructed
  /\ PageLoaded
  /\ store \in StoreContents
  /\ storageEnabled \in BOOLEAN
  /\ systemDark \in BOOLEAN

\* the page is still the one the script runs in
OnPage == location = StartPage

\* AppState.init(): loadPreferences(), applyTheme(), then
\* setupSystemThemeListener(), which attaches a listener when no theme
\* preference is set; the listener is never removed
AppStateInit ==
  LET loaded == applyTheme(loadPreferences(App, storageEnabled, systemDark)) IN
  /\ SetApp(loaded)
  /\ systemListener' = (systemListener \/ ~Truthy(loaded.preferences.theme))

\* Neither App.init() nor App.destroy() touches the menu, the environment or
\* the history
InitFrame == UNCHANGED <<menuVars, storageEnabled, systemDark, userToggled>>

\* the document click listener of Navigation, the target outside the menu
\* and its toggle
MenuOutsideClick == SetMenu(IF navListening THEN closeMenu(Menu) ELSE Menu)

\* what a click does besides the menu: focus leaves the search input, and the
\* document click listener of the search clears the results
ClickAway ==
  LET blurred == [Dom EXCEPT !.activeElement = "body", !.itemIndex = -1] IN
  SetDom(IF listening THEN clearResults(blurred) ELSE blurred)

\* the menu is open and the Escape listener of Navigation is attached
MenuEscapes == navListening /\ menuOpen

(***************************************************************************)
(* Lifecycle                                                               *)
(***************************************************************************)
\* App.init() -> SearchHandler.init(): a new elements object, a new
\* AbortController, loadSearchData(), setupSearch() with a new debounce closure
AppInit ==
  /\ OnPage
  /\ ~initialized
  /\ inits < (IF recording THEN TraceInits ELSE MaxInits)
  /\ initialized' = TRUE
  /\ inits' = inits + 1
  /\ listening' = TRUE
  /\ searchData' = loadSearchData
  /\ resultsContainer' = <<>>
  /\ burst' = 0
  /\ OtherEvent
  /\ UNCHANGED <<wrapperChildren, inputValue, clearDisplay, activeElement,
                 itemIndex, pendingTimers, location, lastAnnounce, searchCalls>>
  /\ UNCHANGED callVars
  /\ AppStateInit
  /\ navListening' = TRUE
  /\ toggleListeners' = toggleListeners + 1
  /\ InitFrame

\* variant: destroy() without abortController.abort()
AppDestroyKeepsListeners ==
  /\ OnPage
  /\ initialized
  /\ initialized' = FALSE
  /\ listening' = listening
  /\ SetDom(clearResults(Dom))
  /\ OtherEvent
  /\ UNCHANGED <<inits, inputValue, clearDisplay, pendingTimers, location, burst>>
  /\ UNCHANGED callVars
  /\ navListening' = FALSE
  /\ UNCHANGED <<appVars, systemListener, toggleListeners>>
  /\ InitFrame

\* App.destroy() -> Navigation.destroy(), SearchHandler.destroy()
AppDestroy ==
  /\ OnPage
  /\ initialized
  /\ initialized' = FALSE
  /\ listening' = FALSE
  /\ SetDom(clearResults(Dom))
  /\ OtherEvent
  /\ UNCHANGED <<inits, inputValue, clearDisplay, pendingTimers, location, burst>>
  /\ UNCHANGED callVars
  /\ navListening' = FALSE
  /\ UNCHANGED <<appVars, systemListener, toggleListeners>>
  /\ InitFrame

(***************************************************************************)
(* Events                                                                  *)
(***************************************************************************)
\* the user edits the input; the 'input' listener trims the value and hands
\* it to the debounced search of the current setupSearch
InputEvent(v) ==
  /\ OnPage
  /\ activeElement = "input"
  /\ v # inputValue
  /\ inputValue' = v
  /\ IF listening
     THEN /\ pendingTimers' = debounced(pendingTimers, inits, trim(v))
          /\ clearDisplay' = IF trim(v) # "" THEN "flex" ELSE "none"
          /\ burst' = IF ~recording THEN burst
                      ELSE IF \E t \in pendingTimers : t.closure = inits
                      THEN (IF burst < BurstCap THEN burst + 1 ELSE burst)
                      ELSE 1
     ELSE UNCHANGED <<pendingTimers, clearDisplay, burst>>
  /\ OtherEvent
  /\ UNCHANGED <<initialized, inits, listening, location>>
  /\ UNCHANGED domVars
  /\ UNCHANGED callVars
  /\ UNCHANGED themeVars

\* a debounce timeout elapses: fn.apply(this, args), i.e. handleSearch(query)
TimerFire(t) ==
  /\ OnPage
  /\ t \in pendingTimers
  /\ pendingTimers' = pendingTimers \ {t}
  /\ SetDom(handleSearch(Dom, t.args))
  /\ OtherEvent
  /\ UNCHANGED <<initialized, inits, listening, inputValue, clearDisplay, location,
                 burst>>
  /\ UNCHANGED callVars
  /\ UNCHANGED themeVars

\* variant: Enter follows the first result of the rendered panel
EnterKeyFirstRendered ==
  /\ OnPage
  /\ activeElement = "input"
  /\ location' = IF listening /\ resultsContainer # <<>>
                     /\ Len(resultsContainer[1].results) > 0
                  THEN resultsContainer[1].results[1].page
                  ELSE location
  /\ OtherEvent
  /\ UNCHANGED <<initialized, inits, listening, searchData, searchCalls,
                 resultsContainer, wrapperChildren, inputValue, clearDisplay,
                 activeElement, itemIndex, pendingTimers, lastAnnounce, burst>>
  /\ UNCHANGED callVars
  /\ UNCHANGED themeVars

\* keydown 'Enter' with the input focused
EnterKey ==
  /\ OnPage
  /\ activeElement = "input"
  /\ LET query == trim(inputValue)
         out   == searchContentOn(searchData, query)
     IN IF listening /\ query # ""
        THEN /\ searchData' = out.searchData
             /\ searchCalls' = counted(searchCalls)
             /\ location' = IF Len(out.results) > 0 THEN out.results[1].page
                            ELSE location
        ELSE UNCHANGED <<searchData, searchCalls, location>>
  /\ OtherEvent
  /\ UNCHANGED <<initialized, inits, listening, resultsContainer,
                 wrapperChildren, inputValue, clearDisplay, activeElement,
                 itemIndex, pendingTimers, lastAnnounce, burst>>
  /\ UNCHANGED callVars
  /\ UNCHANGED themeVars

\* keydown 'ArrowDown' / 'ArrowUp': the listener is on the input, so it runs
\* only for a key press whose target is the input
ArrowKey(key) ==
  /\ OnPage
  /\ activeElement \in {"input", "item"}
  /\ IF listening /\ activeElement = "input"
     THEN SetDom(handleArrowNavigation(Dom, key))
     ELSE UNCHANGED domVars
  /\ lastArrow' = IF recording THEN [key |-> key, flip |-> ~lastArrow.flip]
                  ELSE lastArrow
  /\ UNCHANGED recording
  /\ UNCHANGED <<initialized, inits, listening, inputValue, clearDisplay,
                 pendingTimers, location, burst>>
  /\ UNCHANGED callVars
  /\ UNCHANGED themeVars

\* click on the clear button
ClearClick ==
  /\ OnPage
  /\ clearDisplay # "none"
  /\ IF listening
     THEN /\ inputValue' = ""
          /\ SetDom(clearResults([Dom EXCEPT !.activeElement = "input",
                                             !.itemIndex = -1]))
          /\ clearDisplay' = "none"
     ELSE /\ UNCHANGED domVars
          /\ UNCHANGED <<inputValue, clearDisplay>>
  /\ OtherEvent
  /\ UNCHANGED <<initialized, inits, listening, pendingTimers, location, burst>>
  /\ UNCHANGED callVars
  /\ UNCHANGED themeVars

\* variant: the shortcut also clears the results
ShortcutKeyClears ==
  /\ OnPage
  /\ IF listening
     THEN SetDom(clearResults([Dom EXCEPT !.activeElement = "input",
                                          !.itemIndex = -1]))
     ELSE UNCHANGED domVars
  /\ OtherEvent
  /\ UNCHANGED <<initialized, inits, listening, inputValue, clearDisplay,
                 pendingTimers, location, burst>>
  /\ UNCHANGED callVars
  /\ UNCHANGED themeVars

\* document keydown with Ctrl+K or Cmd+K
ShortcutKey ==
  /\ OnPage
  /\ IF listening
     THEN SetDom([Dom EXCEPT !.activeElement = "input", !.itemIndex = -1])
     ELSE UNCHANGED domVars
  /\ OtherEvent
  /\ UNCHANGED <<initialized, inits, listening, inputValue, clearDisplay,
                 pendingTimers, location, burst>>
  /\ UNCHANGED callVars
  /\ UNCHANGED themeVars

\* variant: Escape only blurs the input
EscapeKeyBlurOnly ==
  /\ OnPage
  /\ IF MenuEscapes
     THEN SetDom([Dom EXCEPT !.activeElement = "body", !.itemIndex = -1])
     ELSE IF listening /\ activeElement = "input"
     THEN SetDom([Dom EXCEPT !.activeElement = "body"])
     ELSE UNCHANGED domVars
  /\ OtherEvent
  /\ UNCHANGED <<initialized, inits, listening, inputValue, clearDisplay,
                 pendingTimers, location, burst>>
  /\ UNCHANGED callVars
  /\ SetMenu(IF MenuEscapes THEN closeMenu(Menu) ELSE Menu)
  /\ UNCHANGED <<appVars, storageEnabled, systemDark, systemListener,
                 toggleListeners, navListening, userToggled>>

\* document keydown 'Escape': the listener of Navigation runs first, closes an
\* open menu and moves the focus to the menu toggle; the listener of the
\* search then acts only if the input still has the focus
EscapeKey ==
  /\ OnPage
  /\ IF MenuEscapes
     THEN SetDom([Dom EXCEPT !.activeElement = "body", !.itemIndex = -1])
     ELSE IF listening /\ activeElement = "input"
     THEN SetDom(clearResults([Dom EXCEPT !.activeElement = "body"]))
     ELSE UNCHANGED domVars
  /\ OtherEvent
  /\ UNCHANGED <<initialized, inits, listening, inputValue, clearDisplay,
                 pendingTimers, location, burst>>
  /\ UNCHANGED callVars
  /\ SetMenu(IF MenuEscapes THEN closeMenu(Menu) ELSE Menu)
  /\ UNCHANGED <<appVars, storageEnabled, systemDark, systemListener,
                 toggleListeners, navListening, userToggled>>

\* click on the input: it takes focus; the document click listener finds
\* the target inside the wrapper
InputClick ==
  /\ OnPage
  /\ activeElement # "input"
  /\ SetDom([Dom EXCEPT !.activeElement = "input", !.itemIndex = -1])
  /\ OtherEvent
  /\ UNCHANGED <<initialized, inits, listening, inputValue, clearDisplay,
                 pendingTimers, location, burst>>
  /\ UNCHANGED callVars
  /\ UNCHANGED themeVars

\* click outside the wrapper, the panel, the menu and the toggles: focus
\* leaves; the document click listeners call clearResults() and closeMenu()
OutsideClick ==
  /\ OnPage
  /\ ClickAway
  /\ OtherEvent
  /\ UNCHANGED <<initialized, inits, listening, inputValue, clearDisplay,
                 pendingTimers, location, burst>>
  /\ UNCHANGED callVars
  /\ MenuOutsideClick
  /\ UNCHANGED <<appVars, storageEnabled, systemDark, systemListener,
                 toggleListeners, navListening, userToggled>>

\* click on #dark-toggle: every click listener attached to it calls
\* toggleTheme(); a write can return only if storage is allowed. The button
\* lies inside or outside the menu, so the document click listener of
\* Navigation closes the menu or not
ThemeToggleClick ==
  /\ OnPage
  /\ toggleListeners > 0
  /\ \E oks \in [1..toggleListeners -> BOOLEAN] :
       /\ storageEnabled \/ \A i \in 1..toggleListeners : ~oks[i]
       /\ SetApp(toggleClicks(App, oks, 1))
  /\ userToggled' = TRUE
  /\ \E inMenu \in BOOLEAN :
       SetMenu(IF navListening /\ ~inMenu THEN closeMenu(Menu) ELSE Menu)
  /\ ClickAway
  /\ OtherEvent
  /\ UNCHANGED <<initialized, inits, listening, inputValue, clearDisplay,
                 pendingTimers, location, burst>>
  /\ UNCHANGED callVars
  /\ UNCHANGED <<storageEnabled, systemDark, systemListener, toggleListeners,
                 navListening>>

\* the system color scheme changes: the media query listeners set the theme
\* from e.matches while no theme preference is set
SystemThemeChange ==
  /\ OnPage
  /\ systemDark' = ~systemDark
  /\ SetApp(IF systemListener /\ ~Truthy(preferences.theme)
            THEN applyTheme([App EXCEPT !.theme = getSystemTheme(~systemDark)])
            ELSE App)
  /\ OtherEvent
  /\ UNCHANGED <<initialized, inits, listening, inputValue, clearDisplay,
                 pendingTimers, location, burst>>
  /\ UNCHANGED <<domVars, callVars, menuVars>>
  /\ UNCHANGED <<storageEnabled, systemListener, toggleListeners,
                 navListening, userToggled>>

\* click on #menu-toggle: toggleMenu(); the document click listener of
\* Navigation finds the target inside the toggle
MenuToggleClick ==
  /\ OnPage
  /\ SetMenu(IF navListening THEN toggleMenu(Menu) ELSE Menu)
  /\ ClickAway
  /\ OtherEvent
  /\ UNCHANGED <<initialized, inits, listening, inputValue, clearDisplay,
                 pendingTimers, location, burst>>
  /\ UNCHANGED callVars
  /\ UNCHANGED <<appVars, storageEnabled, systemDark, systemListener,
                 toggleListeners, navListening, userToggled>>

\* click on a link of the menu: closeMenu(); the document click listener of
\* Navigation finds the target inside the menu
MenuLinkClick ==
  /\ OnPage
  /\ SetMenu(IF navListening THEN closeMenu(Menu) ELSE Menu)
  /\ ClickAway
  /\ OtherEvent
  /\ UNCHANGED <<initialized, inits, listening, inputValue, clearDisplay,
                 pendingTimers, location, burst>>
  /\ UNCHANGED callVars
  /\ UNCHANGED <<appVars, storageEnabled, systemDark, systemListener,
                 toggleListeners, navListening, userToggled>>

Next ==
  \/ AppInit
  \/ AppDestroy
  \/ \E v \in InputValues : InputEvent(v)
  \/ \E t \in pendingTimers : TimerFire(t)
  \/ EnterKey
  \/ \E key \in {"ArrowDown", "ArrowUp"} : ArrowKey(key)
  \/ ClearClick
  \/ ShortcutKey
  \/ EscapeKey
  \/ InputClick
  \/ OutsideClick

Spec == Init /\ [][Next]_vars

\* the controller with its history of input bursts and arrow keys
SpecTrace == InitTrace /\ [][Next]_vars

\* the theme and the menu: the events that reach AppState and Navigation
NextTheme ==
  \/ AppInit
  \/ AppDestroy
  \/ ThemeToggleClick
  \/ SystemThemeChange
  \/ MenuToggleClick
  \/ MenuLinkClick
  \/ EscapeKey
  \/ OutsideClick

SpecTheme == InitTheme /\ [][NextTheme]_vars

(***************************************************************************)
(* searchContent as a function of its argument                             *)
(***************************************************************************)
InitRank ==
  /\ initialized = TRUE
  /\ inits = 1
  /\ listening = TRUE
  /\ searchData = loadSearchData
  /\ resultsContainer = <<>>
  /\ wrapperChildren = <<>>
  /\ inputValue = ""
  /\ clearDisplay = ""
  /\ activeElement = "body"
  /\ itemIndex = -1
  /\ pendingTimers = {}
  /\ location = StartPage
  /\ lastAnnounce = -1
  /\ searchCalls = 0
  /\ recording = FALSE
  /\ burst = 0
  /\ lastArrow = NoArrow
  /\ callQuery \in RankQueries
  /\ callReturned = FALSE
  /\ callResults = <<>>
  /\ theme = "light"
  /\ preferences = EmptyObject
  /\ dataTheme = "light"
  /\ themeAnnounce = ""
  /\ lastWrite = "none"
  /\ uncaught = FALSE
  /\ systemListener = TRUE
  /\ toggleListeners = 1
  /\ userToggled = FALSE
  /\ menuOpen = FALSE
  /\ menuShow = FALSE
  /\ ariaExpanded = "false"
  /\ bodyOverflow = ""
  /\ navListening = TRUE
  /\ PlainBrowser

CallSearchContent ==
  /\ ~callReturned
  /\ callReturned' = TRUE
  /\ LET out == searchContent(searchData, callQuery) IN
       /\ callResults' = out.results
       /\ searchData' = out.searchData
       /\ searchCalls' = counted(searchCalls)
  /\ UNCHANGED <<initialized, inits, listening, resultsContainer,
                 wrapperChildren, inputValue, clearDisplay, activeElement,
                 itemIndex, pendingTimers, location, lastAnnounce, recording,
                 burst, lastArrow, callQuery>>
  /\ UNCHANGED themeVars

NextRank == CallSearchContent

SpecRank == InitRank /\ [][NextRank]_vars

(***************************************************************************)
(* Properties of searchContent                                             *)
(***************************************************************************)
\* the index in the catalog of the record a returned record was made from
CatalogIndex(r) ==
  CHOOSE k \in 1..Len(loadSearchData) : loadSearchData[k].title = r.title

Positive(terms) ==
  {k \in 1..Len(loadSearchData) : itemScore(loadSearchData[k], terms) > 0}

Returned == {CatalogIndex(callResults[j]) : j \in 1..Len(callResults)}

\* Positive for the queries the input handlers can pass
positiveOnLoaded ==
  [q \in {trim(v) : v \in InputValues} |-> Positive(searchTerms(q))]

\* the score as the specification states it: per term occurrence one title
\* tier at most, and the description, keyword and category bonuses
ClaimedTermScore(item, term) ==
  LET t == toLowerCase(item.title)
      exact  == t = term
      prefix == ~exact /\ startsWith(t, term)
      inside == ~exact /\ ~prefix /\ includes(t, term)
  IN  (IF exact THEN 100 ELSE 0) + (IF prefix THEN 75 ELSE 0)
      + (IF inside THEN 50 ELSE 0)
      + (IF includes(toLowerCase(item.description), term) THEN 30 ELSE 0)
      + (IF includes(toLowerCase(join(item.keywords)), term) THEN 25 ELSE 0)
      + (IF includes(toLowerCase(item.category), term) THEN 15 ELSE 0)

RECURSIVE SumUpTo(_, _, _)
SumUpTo(item, terms, n) ==
  IF n = 0 THEN 0
  ELSE SumUpTo(item, terms, n - 1) + ClaimedTermScore(item, terms[n])

ClaimedScore(item, terms) == SumUpTo(item, terms, Len(terms))

\* C1: the score searchContent assigns to a record is the sum, over the
\* term occurrences, of one title tier (100 exact, else 75 prefix, else 50
\* substring) plus 30 (description), 25 (keywords), 15 (category).
C1_ScoreIsSumOfBuckets ==
  callReturned =>
    LET terms == searchTerms(callQuery) IN
    /\ \A k \in 1..Len(loadSearchData) :
         mapItem(loadSearchData[k], terms).ret.score
           = ClaimedScore(loadSearchData[k], terms)
    /\ \A j \in 1..Len(callResults) :
         callResults[j].score
           = ClaimedScore(loadSearchData[CatalogIndex(callResults[j])], terms)

\* two terms, one of them the exact title, with description and keyword
\* bonuses from the other
C1_Witness ==
  /\ callReturned
  /\ callQuery = "high Mnemonics"
  /\ Len(callResults) > 0
  /\ callResults[1].title = "Mnemonics"
  /\ callResults[1].score = 115

\* C2: the returned sequence is sorted non-increasing by score and records
\* of equal score keep their catalog order.
C2_SortedAndStable ==
  callReturned =>
    \A i, j \in 1..Len(callResults) :
      i < j =>
        /\ callResults[i].score >= callResults[j].score
        /\ callResults[i].score = callResults[j].score
             => CatalogIndex(callResults[i]) < CatalogIndex(callResults[j])

C2_Witness ==
  /\ callReturned
  /\ Len(callResults) >= 3
  /\ callResults[1].score = callResults[2].score
  /\ callResults[2].score > callResults[3].score

\* C3: every returned record has score > 0, and a catalog record of
\* positive score is missing only because of the cap.
C3_PositiveAndOnlyCapDrops ==
  callReturned =>
    /\ \A j \in 1..Len(callResults) : callResults[j].score > 0
    /\ \A k \in Positive(searchTerms(callQuery)) \ Returned :
         /\ Len(callResults) = SEARCH_RESULT_LIMIT
         /\ itemScore(loadSearchData[k], searchTerms(callQuery))
              <= callResults[Len(callResults)].score

C3_Witness ==
  /\ callReturned
  /\ Len(callResults) > 0
  /\ Positive(searchTerms(callQuery)) \ Returned # {}
  /\ Cardinality(Positive(searchTerms(callQuery))) < Len(loadSearchData)

\* C4: searchContent returns at most SEARCH_RESULT_LIMIT records.
C4_AtMostLimit ==
  callReturned => Len(callResults) <= SEARCH_RESULT_LIMIT

C4_Witness ==
  /\ callReturned
  /\ Len(callResults) = SEARCH_RESULT_LIMIT
  /\ Cardinality(Positive(searchTerms(callQuery))) > SEARCH_RESULT_LIMIT

\* no two neighbouring characters of q are both non-whitespace: q has no
\* token longer than one character
NoLongToken(q) ==
  \A i \in 1..(Len(q) - 1) :
    IsWhitespace(CharAt(q, i)) \/ IsWhitespace(CharAt(q, i + 1))

\* C5: a query without a term longer than one character (empty, whitespace
\* only, single-character tokens only) yields the empty sequence.
C5_NoTermsNoResults ==
  (callReturned /\ NoLongToken(callQuery)) => callResults = <<>>

C5_Witness ==
  /\ callReturned
  /\ callQuery = "p\tp"
  /\ callResults = <<>>

\* C8: with the shipped catalog, "pomodoro" returns "Pomodoro Technique"
\* (prefix tier, 75) first and "Academic Balance" (keyword match) after it.
C8_PomodoroScenario ==
  (callReturned /\ callQuery = "pomodoro") =>
    /\ Len(callResults) >= 2
    /\ callResults[1].title = "Pomodoro Technique"
    /\ callResults[1].score = 75
    /\ \E j \in 2..Len(callResults) :
         /\ callResults[j].title = "Academic Balance"
         /\ callResults[j].score = 25

C8_Witness ==
  /\ callReturned
  /\ callQuery = "pomodoro"
  /\ Len(callResults) = 2

(***************************************************************************)
(* Properties of the interaction controller                                *)
(***************************************************************************)
\* a step in which the debounce timeout t elapses and its callback runs
TimerElapses(t) == pendingTimers' = pendingTimers \ {t}

\* C6: ranking is history-free: whatever searches, renders and key events
\* came before, a rendered result list is the one a call of searchContent
\* on the catalog as loaded returns for the same query.
C6_HistoryFree ==
  \A k \in 1..Len(wrapperChildren) :
    wrapperChildren[k].results
      = searchOnLoaded[wrapperChildren[k].query].results

\* a result list with a tie, rendered by a call that was not the first
C6_Witness ==
  /\ searchCalls >= 2
  /\ Len(wrapperChildren) = 1
  /\ wrapperChildren[1].query = "breaks"
  /\ Len(wrapperChildren[1].results) = 3
  /\ wrapperChildren[1].results[1].score = wrapperChildren[1].results[2].score

\* C7: once loadSearchData has run, no step changes searchData.
C7_CatalogNeverMutated ==
  [][inits > 0 => searchData' = searchData]_vars

\* searches, a render and an arrow-key focus move have happened
C7_Witness ==
  /\ inits > 0
  /\ searchCalls >= 2
  /\ activeElement = "item"
  /\ resultsContainer # <<>>
  /\ searchData = loadSearchData

\* C9: a debounced evaluation of a query that has terms but ranks no record
\* leaves a no-results panel rendered (open-no-results), not a closed panel.
C9_NoResultsPanelShown ==
  [][\A t \in pendingTimers :
       (/\ TimerElapses(t)
        /\ searchTerms(t.args) # <<>>
        /\ positiveOnLoaded[t.args] = {})
       => /\ resultsContainer' = <<[query |-> t.args, results |-> <<>>]>>
          /\ \E k \in 1..Len(wrapperChildren') :
               <<wrapperChildren'[k]>> = resultsContainer']_vars

C9_Witness ==
  /\ resultsContainer = <<[query |-> "xyz123notfound", results |-> <<>>]>>
  /\ wrapperChildren = resultsContainer
  /\ lastAnnounce = 0

\* C10: a debounced evaluation of a query whose term sequence is empty is
\* "no search": the panel is closed, and no results panel, no-results panel
\* or "0 results" announcement is produced.
C10_EmptyTermsIsNoSearch ==
  [][\A t \in pendingTimers :
       (TimerElapses(t) /\ searchTerms(t.args) = <<>>)
       => /\ resultsContainer' = <<>>
          /\ Len(wrapperChildren') <= Len(wrapperChildren)
          /\ lastAnnounce' = lastAnnounce]_vars

\* the timeouts the debounced search of the current setupSearch has pending
CurrentTimers == {t \in pendingTimers : t.closure = inits}

\* C11: a burst of input events, each handled before the delay of the
\* previous one has elapsed, causes exactly one search evaluation on the input
\* path, with the value of the last input event: every input event leaves
\* exactly one timeout pending, holding its trimmed value, and the elapsing
\* of that timeout evaluates the search once, with that value, and leaves
\* none pending.
C11_BurstEvaluatedOnce ==
  [][/\ (listening /\ \E v \in InputValues : InputEvent(v))
        => CurrentTimers' = {[closure |-> inits, args |-> trim(inputValue')]}
     /\ \A t \in CurrentTimers :
          TimerElapses(t)
          => /\ CurrentTimers' = {}
             /\ searchCalls' = IF t.args = "" THEN searchCalls
                               ELSE counted(searchCalls)
             /\ t.args # ""
                => resultsContainer' =
                     <<[query |-> t.args,
                        results |-> searchOnLoaded[t.args].results]>>]_vars

C11_Witness ==
  /\ burst >= 3
  /\ inputValue = "breaks"
  /\ CurrentTimers = {}
  /\ searchCalls = 1
  /\ resultsContainer = <<[query |-> "breaks",
                           results |-> searchOnLoaded["breaks"].results]>>

\* C12: in every reachable state at most one debounced search evaluation is
\* pending.
C12_AtMostOnePending == Cardinality(pendingTimers) <= 1

\* a keydown event with this arrow key is dispatched
KeyPressed(key) == lastArrow' # lastArrow /\ lastArrow'.key = key

\* result item number k of the rendered list is the active element
ItemFocused(k) == activeElement = "item" /\ itemIndex = k

\* the number of result items of the panel the controller has rendered
RenderedItems ==
  IF resultsContainer = <<>> THEN 0 ELSE Len(resultsContainer[1].results)

\* C13: with three rendered results and the focus in the input, ArrowDown
\* focuses result 0; ArrowDown with result 0 focused focuses result 1; and
\* ArrowDown with result 2 focused moves the focus to result 0.
C13_ArrowDownWalksResults ==
  [][(/\ KeyPressed("ArrowDown")
      /\ listening
      /\ RenderedItems = 3
      /\ itemCount(Dom) = 3)
     => /\ activeElement = "input" => ItemFocused(0)'
        /\ ItemFocused(0) => ItemFocused(1)'
        /\ ItemFocused(2) => ItemFocused(0)']_vars

\* C14: with a panel of n >= 1 result items open, ArrowDown with no item
\* focused focuses item 0, ArrowUp with no item focused focuses item n-1,
\* and ArrowUp with item 0 focused focuses item n-1.
C14_ArrowEntryAndWrap ==
  [][(/\ listening
      /\ RenderedItems >= 1
      /\ itemCount(Dom) = RenderedItems)
     => /\ (KeyPressed("ArrowDown") /\ activeElement = "input")
           => ItemFocused(0)'
        /\ (KeyPressed("ArrowUp") /\ activeElement = "input")
           => ItemFocused(RenderedItems - 1)'
        /\ (KeyPressed("ArrowUp") /\ ItemFocused(0))
           => ItemFocused(RenderedItems - 1)']_vars

\* C15: an input event that sets the input to an empty or whitespace-only
\* value schedules an evaluation of the empty query, and when that delay
\* elapses the panel is closed: the controller holds no panel and the panel
\* element it held is removed from the wrapper.
C15_EmptyInputClosesPanel ==
  [][/\ \A v \in InputValues :
          (listening /\ InputEvent(v) /\ trim(v) = "")
          => CurrentTimers' = {[closure |-> inits, args |-> ""]}
     /\ \A t \in pendingTimers :
          (TimerElapses(t) /\ t.args = "")
          => /\ resultsContainer' = <<>>
             /\ resultsContainer # <<>>
                => Len(wrapperChildren') = Len(wrapperChildren) - 1]_vars

C15_Witness ==
  /\ listening
  /\ inputValue = " "
  /\ activeElement = "input"
  /\ pendingTimers = {}
  /\ lastAnnounce = 3
  /\ resultsContainer = <<>>
  /\ wrapperChildren = <<>>

\* the page of the record ranked first for a query the input can hold: the
\* highest score, and among equal scores the first in catalog order
firstRankedOnLoaded ==
  [q \in {trim(v) : v \in InputValues} |->
     LET P == positiveOnLoaded[q]
         s(k) == ClaimedScore(loadSearchData[k], searchTerms(q))
     IN IF P = {} THEN <<>>
        ELSE <<loadSearchData[CHOOSE k \in P :
                 \A j \in P : s(k) > s(j) \/ (s(k) = s(j) /\ k <= j)].page>>]

\* C16: Enter in the input with a non-empty trimmed value ranks that value at
\* once, whatever debounced evaluation is pending and whatever its value:
\* with at least one ranked record the location becomes the page of the
\* first one, with none the location stays; the pending evaluation and the
\* panel are left as they are.
C16_EnterRanksLiteralInput ==
  [][(listening /\ EnterKey /\ trim(inputValue) # "")
     => /\ location' = IF firstRankedOnLoaded[trim(inputValue)] = <<>>
                       THEN location
                       ELSE firstRankedOnLoaded[trim(inputValue)][1]
        /\ UNCHANGED <<pendingTimers, resultsContainer, wrapperChildren,
                       lastAnnounce>>]_vars

C16_Witness ==
  /\ inputValue = "pomodoro"
  /\ location = firstRankedOnLoaded["pomodoro"][1]
  /\ location # StartPage
  /\ \E t \in pendingTimers : t.args # "pomodoro"
  /\ resultsContainer = <<>>

\* C17: after a single init at most one result panel element exists in the
\* wrapper.
C17_AtMostOnePanel == inits <= 1 => Len(wrapperChildren) <= 1

C17_Witness ==
  /\ inits = 1
  /\ searchCalls >= 2
  /\ lastAnnounce = 2
  /\ wrapperChildren = <<[query |-> "pomodoro",
                          results |-> searchOnLoaded["pomodoro"].results]>>

\* the controller holds no panel, the panel element it held is no longer in
\* the wrapper, and no panel is added
PanelClosedByStep ==
  /\ resultsContainer' = <<>>
  /\ resultsContainer # <<>> => Len(wrapperChildren') = Len(wrapperChildren) - 1
  /\ \A k \in 1..Len(wrapperChildren') :
       \E j \in 1..Len(wrapperChildren) : wrapperChildren[j] = wrapperChildren'[k]

C19_ShortcutOnlyFocuses ==
  [][(listening /\ ShortcutKey)
     => /\ activeElement' = "input"
        /\ UNCHANGED <<resultsContainer, wrapperChildren, pendingTimers,
                       inputValue, clearDisplay, lastAnnounce, searchCalls,
                       searchData, location>>]_vars

C19_Witness ==
  /\ listening
  /\ activeElement = "input"
  /\ RenderedItems = 3
  /\ wrapperChildren = resultsContainer
  /\ inputValue = "pomodoro"
  /\ pendingTimers = {[closure |-> inits, args |-> "pomodoro"]}

\* destroy() has run and no init has followed
Destroyed == inits > 0 /\ ~initialized

\* an input, key or click event is dispatched
UserEvent ==
  \/ \E v \in InputValues : InputEvent(v)
  \/ EnterKey
  \/ \E key \in {"ArrowDown", "ArrowUp"} : ArrowKey(key)
  \/ ClearClick
  \/ ShortcutKey
  \/ EscapeKey
  \/ InputClick
  \/ OutsideClick

\* C20: destroy() leaves the controller's panel closed and detaches every
\* listener of setupSearch: an input, key or click event after it schedules
\* and evaluates no search, does not navigate, and changes neither the panel
\* nor the input's value and clear button through a handler; the focus moves
\* only as the browser moves it for a click.
C20_DestroyDetachesListeners ==
  [][/\ AppDestroy => PanelClosedByStep
     /\ (Destroyed /\ UserEvent)
        => /\ UNCHANGED <<pendingTimers, searchCalls, searchData, location,
                          resultsContainer, wrapperChildren, lastAnnounce,
                          clearDisplay>>
           /\ inputValue' = inputValue \/ \E v \in InputValues : InputEvent(v)
           /\ \/ UNCHANGED <<activeElement, itemIndex>>
              \/ InputClick
              \/ OutsideClick]_vars

C20_Witness ==
  /\ Destroyed
  /\ clearDisplay = "none"
  /\ inputValue = "breaks"
  /\ pendingTimers = {}
  /\ lastAnnounce = 3
  /\ resultsContainer = <<>>
  /\ wrapperChildren = <<>>

\* C24: an ArrowUp or ArrowDown key press while no result item is rendered
\* (panel closed, or the no-results panel open) changes nothing: the focus
\* stays where it was and the panel is as before.
C24_ArrowWithoutItemsIsNoOp ==
  [][\A key \in {"ArrowDown", "ArrowUp"} :
       (KeyPressed(key) /\ itemCount(Dom) = 0)
       => UNCHANGED <<activeElement, itemIndex, resultsContainer,
                      wrapperChildren, lastAnnounce, searchCalls, pendingTimers,
                      inputValue, location>>]_vars

C24_Witness ==
  /\ listening
  /\ lastArrow.key = "ArrowDown"
  /\ activeElement = "input"
  /\ resultsContainer = <<[query |-> "xyz123notfound", results |-> <<>>]>>
  /\ wrapperChildren = resultsContainer

\* C25: whenever a result panel is open the trimmed value of the input is
\* not empty; checked in the states where no debounced evaluation is
\* pending, so that the delay between an input event and its evaluation
\* does not count against the claim.
C25_OpenPanelHasQuery ==
  (resultsContainer # <<>> /\ pendingTimers = {}) => trim(inputValue) # ""

\* C26: after destroy() and until a new init no result panel is rendered.
C26_NoPanelAfterDestroy == Destroyed => resultsContainer = <<>>

(***************************************************************************)
(* The theme and the stored preferences                                    *)
(***************************************************************************)
\* the theme of the record the store holds, <<>> if it holds none
StoredTheme ==
  IF store = <<>> \/ store[1] = "" THEN <<>>
  ELSE LET parsed == JSONparse(store[1]) IN
       IF parsed.threw THEN <<>> ELSE parsed.value.theme

\* a step in which the listeners of #dark-toggle ran
ThemeToggled == ThemeToggleClick

\* C21: a failing read, parse or write never leaves loadPreferences or
\* savePreferences: after every App.init the document carries the theme
\* AppState holds, and a click on the theme toggle whose write threw still
\* flips the in-memory theme and applies it.
C21_StorageFailuresAreContained ==
  /\ [](~uncaught /\ (inits > 0 => dataTheme = theme))
  /\ [][(ThemeToggled /\ lastWrite' = "threw")
         => /\ dataTheme' = theme'
            /\ toggleListeners = 1 => theme' = toggledTheme(theme)]_vars

C21_Witness ==
  /\ ~storageEnabled
  /\ inits = 1
  /\ store = <<"{oops">>
  /\ lastWrite = "threw"
  /\ theme = "dark"
  /\ dataTheme = "dark"

\* C22: after each toggleTheme whose write succeeds, the theme of the record
\* stored under the key equals the in-memory theme, whatever the store held
\* at startup.
C22_StoredThemeFollowsToggle ==
  [][(ThemeToggled /\ lastWrite' = "ok") => StoredTheme' = <<theme'>>]_vars

\* the store can be read and holds a record with a theme selection
ThemeSelectionStored == storageEnabled /\ Truthy(StoredTheme)

\* the store can be read and holds nothing, or a record without properties
NoPreferenceStored == storageEnabled /\ store \in {<<>>, <<"{}">>}

\* a step in which App.init() ran
Started == inits' = inits + 1

\* C23: at startup a stored theme selection becomes the in-memory theme, and
\* with no preference stored the theme is the system color scheme: dark if
\* the system prefers dark, light otherwise.
C23_StartupTheme ==
  [][Started
     => /\ ThemeSelectionStored => theme' = StoredTheme[1]
        /\ NoPreferenceStored
             => theme' = (IF systemDark THEN "dark" ELSE "light")]_vars

C23_Witness ==
  /\ inits = 1
  /\ lastWrite = "none"
  /\ store = <<ThemeKey \o "dark" \o ObjectEnd>>
  /\ ~systemDark
  /\ theme = "dark"
  /\ dataTheme = "dark"

\* C27: after App.destroy() followed by App.init(), one click on the theme
\* toggle changes the theme exactly once, light to dark or dark to light.
C27_OneToggleAfterReinit ==
  [][(ThemeToggled /\ initialized /\ inits >= 2)
     => theme' = toggledTheme(theme)]_vars

\* C29: once toggleTheme has run, whether its write succeeded or not, a later
\* change of the system color scheme never changes AppState.theme.
C29_ToggledThemeIgnoresSystem ==
  [][(userToggled /\ systemDark' # systemDark) => theme' = theme]_vars

\* C30: AppState.theme is 'light' or 'dark' in every reachable state, for
\* every content of the store at startup, and two consecutive toggles restore
\* the theme held before them.
C30_ThemeIsLightOrDark ==
  /\ theme \in {"light", "dark"}
  /\ toggledTheme(toggledTheme(theme)) = theme

(***************************************************************************)
(* The mobile menu                                                         *)
(***************************************************************************)
\* C28: through menu-toggle clicks, outside clicks, Escape and menu link
\* clicks, the menu has the class 'show' exactly when menuOpen, aria-expanded
\* of the toggle spells menuOpen, and the body overflow is 'hidden' exactly
\* when menuOpen; closeMenu on a closed menu changes nothing.
C28_MenuInSync ==
  /\ menuShow = menuOpen
  /\ ariaExpanded = (IF menuOpen THEN "true" ELSE "false")
  /\ (bodyOverflow = "hidden") = menuOpen
  /\ ~menuOpen => closeMenu(Menu) = Menu

C28_Witness ==
  /\ initialized
  /\ menuOpen
  /\ menuShow
  /\ ariaExpanded = "true"
  /\ bodyOverflow = "hidden"

====
